---- MODULE Spec2Model ----
(***************************************************************************)
(* Model of the yupsh/awk execution engine: the per-run Context (Fields,   *)
(* NR, NF, FS, OFS, RS, Variables), its accessor methods, and the          *)
(* Executor loop Begin -> (scan, split, Condition, Action)* -> End.        *)
(*                                                                         *)
(* A Go string is modelled as a sequence of one-character strings, so that *)
(* splitting, joining and comparing are computed character by character.   *)
(***************************************************************************)
EXTENDS Integers, Sequences, FiniteSets, TLC

\* ------------------------------------------------------------------ bounds
\* longest record of a single-record input
MaxLen == 4
\* most records of a multi-record input
MaxRecords == 2
\* most Context calls / field assignments the hooks of one run make
MaxHookOps == 2
\* invocations of one command's executor
MaxRuns == 2
\* the largest field number a string program asks for
MaxField == 3

\* ------------------------------------------------------------ input domain
Whitespace == {" ", "\t"}
Alphabet == {"a", ","} \cup Whitespace

Strings(n) == UNION {[1..k -> Alphabet] : k \in 0..n}

SeqsUpTo(S, n) == UNION {[1..k -> S] : k \in 0..n}

\* records used by the multi-record inputs: the empty line, and a line that
\* splits differently under blanks, under "," and character by character
SampleRecords ==
    { <<>>,
      <<"a", ",", " ", "a">> }

\* values of the -F option as given by the caller ("" is: option not given)
RawSeparators == { <<>>, <<" ">>, <<",">>, <<",", ",">>, <<"\t">> }

\* values a hook assigns to ctx.FS
HookSeparators == { <<>>, <<" ">>, <<",">> }

Space == <<" ">>
Newline == <<"\n">>

VarNames == {"x", "y"}
\* the seed value and the value a hook stores
SeedValue == "v1"
StaleValue == "v0"
VarValues == {"v2"}
Nil == "nil"

\* what a hook writes with SetField, and the indexes it uses
HookValue == <<"z">>
HookIndexes == {-1, 0, 2}

\* the line an End hook or Action hook makes up by itself
HookLine == <<"T">>

\* ------------------------------------------------------------------- state
VARIABLES
    parameters, \* the Variable options given to Awk, in the order given
    flags,      \* c.inputs.Flags: FieldSeparator, OutputFieldSeparator, Variables
    program,    \* c.program: "simple" (SimpleProgram) or "custom"; "none" when
                \* a caller holds a Context of its own and no command runs;
                \* "string" when the command is the string-program interpreter
    script,     \* the program string given to the interpreter
    awkProgram, \* the interpreter's parsed program: Pattern and Action
    lineNum,    \* the interpreter's line counter
    stdin,      \* the records the scanner will deliver
    stdinErr,   \* TRUE: the reader fails after delivering stdin
    stdoutClosed, \* TRUE: every write to the output returns an error
    pc,         \* where the executor is
    Fields, NR, NF, FS, OFS, RS, Variables,   \* the Context
    allocated,  \* c.Variables != nil: the map of the Context has been made
    line,       \* local of the loop: scanner.Text()
    fields,     \* local of the loop: the split of line
    scanned,    \* tokens the scanner has delivered
    stdout,     \* the characters the executor has written to its output
    wfailed,    \* a write to the output has returned an error
    result,     \* error returned by the executor, NoError is nil
    got,        \* hook local: the string Field last returned
    gotVar,     \* hook local: the value Var last returned
    ops,        \* Context calls made by hooks so far
    last,       \* the call the running hook made last, NoCall on entry
    assigned,   \* a hook has called SetField (index >= 0) on these Fields
    nBegin, nCondition, nAction, nEnd   \* invocations of each hook

ctx == <<Fields, NR, NF, FS, OFS, RS, Variables, allocated>>
counters == <<nBegin, nCondition, nAction, nEnd>>
command == <<parameters, flags, program>>
input == <<stdin, stdinErr, stdoutClosed>>
interp == <<script, awkProgram, lineNum>>
vars == <<parameters, flags, program, script, awkProgram, lineNum,
          stdin, stdinErr, stdoutClosed, pc, Fields, NR, NF, FS, OFS, RS,
          Variables, allocated, line, fields, scanned, stdout, wfailed, result, got,
          gotVar,
          ops, last, assigned, nBegin, nCondition, nAction, nEnd>>

HookPcs == {"Begin", "Condition", "Action", "End"}

NoCall == [op |-> "", index |-> 0]
Call(name, i) == [op |-> name, index |-> i]

\* the running hook has not touched the context yet
Fresh == last = NoCall

\* ------------------------------------------------------------------ errors
\* an error: the phase prefix put before it, and the error it wraps or is
NoError == [prefix |-> "", cause |-> ""]
\* errors.New in a hook, and the error of the reader
HookError == [prefix |-> "", cause |-> "hook"]
ReadError == [prefix |-> "", cause |-> "read"]

\* fmt.Errorf(prefix + ": %w", err)
Errorf(prefix, err) == [prefix |-> prefix, cause |-> err.cause]

\* --------------------------------------------------------- string library
\* fmt.Fprint: the text without a line terminator
FprintNoNewline(w, text) == w \o text

\* fmt.Fprintln(w, text): what w holds afterwards
Fprintln(w, text) == w \o text \o Newline

IsSpace(c) == c \in Whitespace

RECURSIVE FieldsFrom(_, _, _, _)
FieldsFrom(s, i, cur, acc) ==
    IF i > Len(s)
    THEN IF cur # <<>> THEN Append(acc, cur) ELSE acc
    ELSE IF IsSpace(s[i])
         THEN FieldsFrom(s, i + 1, <<>>, IF cur # <<>> THEN Append(acc, cur) ELSE acc)
         ELSE FieldsFrom(s, i + 1, Append(cur, s[i]), acc)

\* strings.Fields(s)
StringsFields(s) == FieldsFrom(s, 1, <<>>, <<>>)

HasPrefixAt(s, i, sep) ==
    /\ i + Len(sep) - 1 <= Len(s)
    /\ \A k \in 1..Len(sep) : s[i + k - 1] = sep[k]

\* strings.Index(s, sep): 0-based offset of the first occurrence, -1 if none
Index(s, sep) ==
    LET hits == {m \in 0..Len(s) : HasPrefixAt(s, m + 1, sep)}
    IN  IF hits = {} THEN -1 ELSE CHOOSE m \in hits : \A h \in hits : m <= h

\* strings.Split(s, "") : one string per character
Explode(s) == [k \in 1..Len(s) |-> <<s[k]>>]

RECURSIVE GenSplit(_, _)
GenSplit(s, sep) ==
    LET m == Index(s, sep)
    IN  IF m < 0
        THEN <<s>>
        ELSE <<SubSeq(s, 1, m)>> \o GenSplit(SubSeq(s, m + Len(sep) + 1, Len(s)), sep)

\* strings.Split(s, sep)
StringsSplit(s, sep) == IF sep = <<>> THEN Explode(s) ELSE GenSplit(s, sep)

RECURSIVE Join(_, _)
\* strings.Join(parts, sep)
Join(parts, sep) ==
    IF parts = <<>> THEN <<>>
    ELSE IF Len(parts) = 1 THEN parts[1]
    ELSE parts[1] \o sep \o Join(Tail(parts), sep)

\* ------------------------------------------------------------ the Context
\* Field with the index taken as a position counted from 1
FieldOneBased(index) ==
    IF index < 1 \/ index > Len(Fields) THEN <<>> ELSE Fields[index]

\* Context.Field
Field(index) ==
    IF index < 0 \/ index >= Len(Fields) THEN <<>> ELSE Fields[index + 1]

\* SetField that cuts the sequence off behind the slot it writes
SetFieldFieldsTruncate(index, value) ==
    IF index < 0
    THEN Fields
    ELSE [k \in 1..(index + 1) |->
             IF k = index + 1 THEN value
             ELSE IF k <= Len(Fields) THEN Fields[k] ELSE <<>>]

\* SetField that takes a negative index for slot 0
SetFieldFieldsClamp(index, value) ==
    LET i == IF index < 0 THEN 0 ELSE index
        n == IF Len(Fields) <= i THEN i + 1 ELSE Len(Fields)
        grown == [k \in 1..n |-> IF k <= Len(Fields) THEN Fields[k] ELSE <<>>]
    IN  [grown EXCEPT ![i + 1] = value]

\* Context.SetField: the Fields it leaves
SetFieldFields(index, value) ==
    IF index < 0
    THEN Fields
    ELSE LET n == IF Len(Fields) <= index THEN index + 1 ELSE Len(Fields)
             grown == [k \in 1..n |-> IF k <= Len(Fields) THEN Fields[k] ELSE <<>>]
         IN  [grown EXCEPT ![index + 1] = value]

\* SetField that leaves NF as the split set it
SetFieldNFStale(index, after) == NF

\* Context.SetField: the NF it leaves, given the Fields it leaves
SetFieldNF(index, after) ==
    IF index < 0 THEN NF ELSE Len(after) - 1

\* Context.Var
Var(name) ==
    IF ~allocated
    THEN Nil
    ELSE IF name \in DOMAIN Variables THEN Variables[name] ELSE Nil

\* SetVar that starts a new map on every call
SetVarVariablesAlone(name, value) == [n \in {name} |-> value]

\* Context.SetVar: the Variables it leaves; a nil map is made first
SetVarVariables(name, value) ==
    LET made == IF allocated THEN Variables ELSE <<>>
    IN  [n \in (DOMAIN made) \cup {name} |->
            IF n = name THEN value ELSE made[n]]

\* the split without the special case of the empty line
SplitLineNoEmptyCase(l, fs) ==
    IF fs = Space THEN StringsFields(l) ELSE StringsSplit(l, fs)

\* the split that drops empty fields in literal mode
SplitLineDropEmpty(l, fs) ==
    IF fs = Space
    THEN StringsFields(l)
    ELSE IF l = <<>> THEN <<>>
         ELSE SelectSeq(StringsSplit(l, fs), LAMBDA f : f # <<>>)

\* the split that treats a single space as a literal separator
SplitLineLiteralSpace(l, fs) ==
    IF l = <<>> THEN <<>> ELSE StringsSplit(l, fs)

\* the split of the loop body: the fields of a line under separator fs
SplitLine(l, fs) ==
    IF fs = Space
    THEN StringsFields(l)
    ELSE IF l = <<>> THEN <<>> ELSE StringsSplit(l, fs)

\* -------------------------------------------------------------------- Init
\* no string program has been parsed
NoProgram == [Pattern |-> <<>>, Action |-> <<>>]

\* Awk(): an option that is not given, or empty, becomes a single space
Normalize(sep) == IF sep = <<>> THEN Space ELSE sep

\* a Variable option
Variable(name, value) == [Name |-> name, Value |-> value]

\* Variable.Configure that keeps the value a name already has
ConfigureFirstWins(variables, v) ==
    IF v.Name \in DOMAIN variables
    THEN variables
    ELSE [n \in (DOMAIN variables) \cup {v.Name} |->
            IF n = v.Name THEN v.Value ELSE variables[n]]

\* Variable.Configure: flags.Variables[v.Name] = v.Value
Configure(variables, v) ==
    [n \in (DOMAIN variables) \cup {v.Name} |->
        IF n = v.Name THEN v.Value ELSE variables[n]]

\* the options configure the flags one after the other, in the order given
RECURSIVE ConfigureAll(_)
ConfigureAll(given) ==
    IF given = <<>>
    THEN <<>>
    ELSE Configure(ConfigureAll(SubSeq(given, 1, Len(given) - 1)), given[Len(given)])

\* the Variable options given to Awk: none, or x twice
NoSeeds == <<>>
SeedX == <<Variable("x", StaleValue), Variable("x", SeedValue)>>

\* the options given together with a custom program: none, or -F, and x
CustomOptions == { <<<<>>, NoSeeds>>, <<<<",">>, SeedX>> }

\* Awk(program, parameters...): the command as constructed
Flags(fsep, seeds) ==
    [FieldSeparator |-> Normalize(fsep),
     OutputFieldSeparator |-> Normalize(<<>>),
     Variables |-> ConfigureAll(seeds)]

Init ==
    /\ \/ /\ program = "simple"
          /\ parameters = NoSeeds
          /\ \E fsep \in RawSeparators : flags = Flags(fsep, NoSeeds)
          /\ stdin \in {<<r>> : r \in Strings(MaxLen)}
                      \cup SeqsUpTo(SampleRecords, MaxRecords)
          /\ stdinErr = FALSE
          /\ stdoutClosed \in BOOLEAN
          /\ pc = "init"
       \/ /\ program = "custom"
          /\ \E o \in CustomOptions : parameters = o[2] /\ flags = Flags(o[1], o[2])
          /\ stdin \in SeqsUpTo(SampleRecords, MaxRecords)
          /\ stdinErr \in BOOLEAN
          /\ stdoutClosed = FALSE
          /\ pc = "init"
       \/ /\ program = "none"
          /\ parameters = NoSeeds
          /\ flags = Flags(<<>>, NoSeeds)
          /\ stdin = <<>>
          /\ stdinErr = FALSE
          /\ stdoutClosed = FALSE
          /\ pc = "direct"
    /\ Fields = <<>> /\ NR = 0 /\ NF = 0
    /\ FS = <<>> /\ OFS = <<>> /\ RS = <<>>
    /\ Variables = <<>> /\ allocated = FALSE
    /\ script = <<>> /\ awkProgram = NoProgram /\ lineNum = 0
    /\ line = <<>> /\ fields = <<>>
    /\ scanned = 0
    /\ stdout = <<>>
    /\ wfailed = FALSE
    /\ result = NoError
    /\ got = <<>> /\ gotVar = Nil
    /\ ops = 0
    /\ last = NoCall
    /\ assigned = FALSE
    /\ nBegin = 0 /\ nCondition = 0 /\ nAction = 0 /\ nEnd = 0

\* ------------------------------------------------------------ the executor
\* entering a hook: its locals are fresh
EnterHook(h) ==
    /\ pc' = h
    /\ got' = <<>> /\ gotVar' = Nil
    /\ last' = NoCall

\* leaving a hook for the loop or the end of the run
LeaveHook(to) ==
    /\ pc' = to
    /\ got' = <<>> /\ gotVar' = Nil
    /\ last' = NoCall

\* an executor that builds its context once and keeps it for later runs
ExecuteKeepsContext ==
    /\ pc = "init"
    /\ NR' = 0
    /\ FS' = IF allocated THEN FS ELSE flags.FieldSeparator
    /\ OFS' = flags.OutputFieldSeparator
    /\ RS' = Newline
    /\ Variables' = IF allocated THEN Variables ELSE flags.Variables
    /\ allocated' = TRUE
    /\ Fields' = <<>> /\ NF' = 0
    /\ nBegin' = nBegin + 1
    /\ EnterHook("Begin")
    /\ assigned' = FALSE
    /\ UNCHANGED <<command, input, interp, line, fields, scanned, stdout, wfailed, result,
                   ops, nCondition, nAction, nEnd>>

\* Executor: build the context, copy the seeds, call Begin
Execute ==
    /\ pc = "init"
    /\ NR' = 0
    /\ FS' = flags.FieldSeparator
    /\ OFS' = flags.OutputFieldSeparator
    /\ RS' = Newline
    /\ Variables' = flags.Variables
    /\ allocated' = TRUE
    /\ Fields' = <<>> /\ NF' = 0
    /\ nBegin' = nBegin + 1
    /\ EnterHook("Begin")
    /\ assigned' = FALSE
    /\ UNCHANGED <<command, input, interp, line, fields, scanned, stdout, wfailed, result,
                   ops, nCondition, nAction, nEnd>>

\* Begin returns and its error is dropped
BeginReturnDropsError(failed) ==
    /\ pc = "Begin"
    /\ program = "simple" => ~failed
    /\ LeaveHook("scan")
    /\ result' = result
    /\ UNCHANGED <<command, input, interp, ctx, line, fields, scanned, stdout, wfailed, ops,
                   assigned, counters>>

\* Begin returns
BeginReturn(failed) ==
    /\ pc = "Begin"
    /\ program = "simple" => ~failed
    /\ IF failed
       THEN LeaveHook("done") /\ result' = Errorf("BEGIN", HookError)
       ELSE LeaveHook("scan") /\ result' = result
    /\ UNCHANGED <<command, input, interp, ctx, line, fields, scanned, stdout, wfailed, ops,
                   assigned, counters>>

\* NR without the increment
NextNRStuck == NR

\* awkCtx.NR++
NextNR == NR + 1

\* the loop body writing the new fields over the old ones, keeping what
\* an earlier record's hooks left beyond them
ScanRecordKeepsTail ==
    /\ pc = "scan"
    /\ scanned < Len(stdin)
    /\ scanned' = scanned + 1
    /\ NR' = NextNR
    /\ line' = stdin[scanned + 1]
    /\ fields' = SplitLine(line', FS)
    /\ Fields' = <<line'>> \o fields' \o SubSeq(Fields, Len(fields') + 2, Len(Fields))
    /\ NF' = Len(fields')
    /\ nCondition' = nCondition + 1
    /\ EnterHook("Condition")
    /\ assigned' = FALSE
    /\ UNCHANGED <<command, input, interp, FS, OFS, RS, Variables, allocated, stdout, wfailed, result,
                   ops, nBegin, nAction, nEnd>>

\* the loop body splitting by the configured separator, not by ctx.FS
ScanRecordConfiguredFS ==
    /\ pc = "scan"
    /\ scanned < Len(stdin)
    /\ scanned' = scanned + 1
    /\ NR' = NextNR
    /\ line' = stdin[scanned + 1]
    /\ fields' = SplitLine(line', flags.FieldSeparator)
    /\ Fields' = <<line'>> \o fields'
    /\ NF' = Len(fields')
    /\ nCondition' = nCondition + 1
    /\ EnterHook("Condition")
    /\ assigned' = FALSE
    /\ UNCHANGED <<command, input, interp, FS, OFS, RS, Variables, allocated, stdout, wfailed, result,
                   ops, nBegin, nAction, nEnd>>

\* scanner.Scan() delivers a line: count it, split it, call Condition
ScanRecord ==
    /\ pc = "scan"
    /\ scanned < Len(stdin)
    /\ scanned' = scanned + 1
    /\ NR' = NextNR
    /\ line' = stdin[scanned + 1]
    /\ fields' = SplitLine(line', FS)
    /\ Fields' = <<line'>> \o fields'
    /\ NF' = Len(fields')
    /\ nCondition' = nCondition + 1
    /\ EnterHook("Condition")
    /\ assigned' = FALSE
    /\ UNCHANGED <<command, input, interp, FS, OFS, RS, Variables, allocated, stdout, wfailed, result,
                   ops, nBegin, nAction, nEnd>>

\* End of input where End is only called when a record was read
ScanEOFSkipsEmpty ==
    /\ pc = "scan"
    /\ scanned = Len(stdin)
    /\ ~stdinErr
    /\ IF scanned = 0
       THEN /\ LeaveHook("done")
            /\ nEnd' = nEnd
       ELSE /\ EnterHook("End")
            /\ nEnd' = nEnd + 1
    /\ UNCHANGED <<command, input, interp, ctx, line, fields, scanned, stdout, wfailed,
                   result, ops, assigned, nBegin, nCondition, nAction>>

\* the end of input clearing the fields before End is called
ScanEOFClearsFields ==
    /\ pc = "scan"
    /\ scanned = Len(stdin)
    /\ ~stdinErr
    /\ Fields' = <<>> /\ NF' = 0
    /\ nEnd' = nEnd + 1
    /\ EnterHook("End")
    /\ UNCHANGED <<command, input, interp, NR, FS, OFS, RS, Variables, allocated, line, fields,
                   scanned, stdout, wfailed, result, ops, assigned, nBegin, nCondition,
                   nAction>>

\* scanner.Scan() is false and scanner.Err() is nil: call End
ScanEOF ==
    /\ pc = "scan"
    /\ scanned = Len(stdin)
    /\ ~stdinErr
    /\ nEnd' = nEnd + 1
    /\ EnterHook("End")
    /\ UNCHANGED <<command, input, interp, ctx, line, fields, scanned, stdout, wfailed,
                   result, ops, assigned, nBegin, nCondition, nAction>>

\* the read error is only looked at after End has run
ScanErrorCallsEnd ==
    /\ pc = "scan"
    /\ scanned = Len(stdin)
    /\ stdinErr
    /\ nEnd' = nEnd + 1
    /\ EnterHook("End")
    /\ UNCHANGED <<command, input, interp, ctx, line, fields, scanned, stdout, wfailed,
                   result, ops, assigned, nBegin, nCondition, nAction>>

\* scanner.Scan() is false and scanner.Err() is not nil: return it
ScanError ==
    /\ pc = "scan"
    /\ scanned = Len(stdin)
    /\ stdinErr
    /\ pc' = "done"
    /\ result' = ReadError
    /\ UNCHANGED <<command, input, interp, ctx, line, fields, scanned, stdout, wfailed, got,
                   gotVar, ops, last, assigned, counters>>

\* Condition returns and Action is called whatever it returned
ConditionReturnIgnored(b) ==
    /\ pc = "Condition"
    /\ program = "simple" => b
    /\ nAction' = nAction + 1
    /\ EnterHook("Action")
    /\ UNCHANGED <<command, input, interp, ctx, line, fields, scanned, stdout, wfailed,
                   result, ops, assigned, nBegin, nCondition, nEnd>>

\* Condition returns: false is continue, true calls Action
ConditionReturn(b) ==
    /\ pc = "Condition"
    /\ program = "simple" => b
    /\ IF b
       THEN /\ nAction' = nAction + 1
            /\ EnterHook("Action")
       ELSE /\ nAction' = nAction
            /\ LeaveHook("scan")
    /\ UNCHANGED <<command, input, interp, ctx, line, fields, scanned, stdout, wfailed,
                   result, ops, assigned, nBegin, nCondition, nEnd>>

\* a default Action that gives the first field
ActionOutputsFirstField ==
    IF program = "simple" THEN {Field(1)} ELSE {Field(1), HookLine}

\* what Action may return as output
ActionOutputs == IF program = "simple" THEN {Field(0)} ELSE {Field(0), HookLine}

\* a write to the output: the error it returns is dropped by the executor
Write(text) ==
    /\ stdout' = Fprintln(stdout, text)
    /\ wfailed' = (wfailed \/ stdoutClosed)

NoWrite == UNCHANGED <<stdout, wfailed>>

\* Action returns, and a failed write ends the run
ActionReturnChecksWrite(output, emit) ==
    /\ pc = "Action"
    /\ output \in ActionOutputs
    /\ program = "simple" => emit
    /\ IF emit THEN Write(output) ELSE NoWrite
    /\ IF wfailed'
       THEN LeaveHook("done") /\ result' = ReadError
       ELSE LeaveHook("scan") /\ result' = result
    /\ UNCHANGED <<command, input, interp, ctx, line, fields, scanned, ops,
                   assigned, counters>>

\* Action returns: fmt.Fprintln(stdout, output) when emit
ActionReturn(output, emit) ==
    /\ pc = "Action"
    /\ output \in ActionOutputs
    /\ program = "simple" => emit
    /\ IF emit THEN Write(output) ELSE NoWrite
    /\ LeaveHook("scan")
    /\ UNCHANGED <<command, input, interp, ctx, line, fields, scanned, result, ops,
                   assigned, counters>>

\* what End may return as output
EndOutputs == IF program = "simple" THEN {<<>>} ELSE {<<>>, HookLine}

\* End returns and its output is written also when it is empty
EndReturnWritesEmpty(output, failed) ==
    /\ pc = "End"
    /\ output \in EndOutputs
    /\ program = "simple" => ~failed
    /\ IF failed
       THEN result' = Errorf("END", HookError) /\ NoWrite
       ELSE result' = result /\ Write(output)
    /\ LeaveHook("done")
    /\ UNCHANGED <<command, input, interp, ctx, line, fields, scanned, ops, assigned, counters>>

\* End returns and its output is written before its error is looked at
EndReturnWritesFirst(output, failed) ==
    /\ pc = "End"
    /\ output \in EndOutputs
    /\ program = "simple" => ~failed
    /\ IF output # <<>> THEN Write(output) ELSE NoWrite
    /\ result' = IF failed THEN Errorf("END", HookError) ELSE result
    /\ LeaveHook("done")
    /\ UNCHANGED <<command, input, interp, ctx, line, fields, scanned, ops, assigned, counters>>

\* End returns: an error is wrapped, a non-empty output is written
EndReturn(output, failed) ==
    /\ pc = "End"
    /\ output \in EndOutputs
    /\ program = "simple" => ~failed
    /\ IF failed
       THEN result' = Errorf("END", HookError) /\ NoWrite
       ELSE /\ result' = result
            /\ IF output # <<>> THEN Write(output) ELSE NoWrite
    /\ LeaveHook("done")
    /\ UNCHANGED <<command, input, interp, ctx, line, fields, scanned, ops, assigned, counters>>

\* ------------------------------------------------- what a custom hook does
InHook ==
    /\ \/ pc \in HookPcs /\ program = "custom"
       \/ pc = "direct"
    /\ ops < MaxHookOps

Called(name, i) ==
    /\ ops' = ops + 1
    /\ last' = Call(name, i)

\* the hook calls ctx.Field(index)
HookField(index) ==
    /\ InHook
    /\ got' = Field(index)
    /\ Called("Field", index)
    /\ UNCHANGED <<command, input, interp, pc, ctx, line, fields, scanned, stdout, wfailed,
                   result, gotVar, assigned, counters>>

\* the hook calls ctx.SetField(index, value)
HookSetField(index, value) ==
    /\ InHook
    /\ Fields' = SetFieldFields(index, value)
    /\ NF' = SetFieldNF(index, Fields')
    /\ assigned' = (assigned \/ index >= 0)
    /\ Called("SetField", index)
    /\ UNCHANGED <<command, input, interp, pc, NR, FS, OFS, RS, Variables, allocated, line, fields,
                   scanned, stdout, wfailed, result, got, gotVar, counters>>

\* the hook calls ctx.Var(name)
HookVar(name) ==
    /\ InHook
    /\ gotVar' = Var(name)
    /\ Called("Var", 0)
    /\ UNCHANGED <<command, input, interp, pc, ctx, line, fields, scanned, stdout, wfailed,
                   result, got, assigned, counters>>

\* the hook calls ctx.SetVar(name, value)
HookSetVar(name, value) ==
    /\ InHook
    /\ Variables' = SetVarVariables(name, value)
    /\ allocated' = TRUE
    /\ Called("SetVar", 0)
    /\ UNCHANGED <<command, input, interp, pc, Fields, NR, NF, FS, OFS, RS, line, fields,
                   scanned, stdout, wfailed, result, got, gotVar,
                   assigned, counters>>

\* the hook assigns ctx.FS
HookSetFS(sep) ==
    /\ InHook
    /\ FS' = sep
    /\ Called("FS", 0)
    /\ UNCHANGED <<command, input, interp, pc, Fields, NR, NF, OFS, RS, Variables, allocated, line,
                   fields, scanned, stdout, wfailed, result, got, gotVar,
                   assigned, counters>>

Next ==
    \/ Execute
    \/ \E failed \in BOOLEAN : BeginReturn(failed)
    \/ ScanRecord
    \/ ScanEOF
    \/ ScanError
    \/ \E b \in BOOLEAN : ConditionReturn(b)
    \/ \E output \in ActionOutputs, emit \in BOOLEAN : ActionReturn(output, emit)
    \/ \E output \in EndOutputs, failed \in BOOLEAN : EndReturn(output, failed)
    \/ \E index \in HookIndexes : HookField(index)
    \/ \E index \in HookIndexes : HookSetField(index, HookValue)
    \/ \E name \in VarNames : HookVar(name)
    \/ \E name \in VarNames, value \in VarValues : HookSetVar(name, value)
    \/ \E sep \in HookSeparators : HookSetFS(sep)

Spec == Init /\ [][Next]_vars

\* ------------------------------------------------------ more than one run
\* the executor of the same command is invoked again, on an input like the
\* first and the same output: its locals are new, the command is the same
Rerun ==
    /\ pc = "done"
    /\ nBegin < MaxRuns
    /\ pc' = "init"
    /\ line' = <<>> /\ fields' = <<>>
    /\ scanned' = 0
    /\ result' = NoError
    /\ UNCHANGED <<command, input, interp, ctx, stdout, wfailed, got, gotVar, ops, last,
                   assigned, counters>>

\* a custom program, seeded, over an input of one line, run up to MaxRuns times
RerunInit ==
    /\ Init
    /\ program = "custom"
    /\ parameters = SeedX
    /\ stdin = << <<"a", ",", " ", "a">> >>

RerunNext == Next \/ Rerun

RerunSpec == RerunInit /\ [][RerunNext]_vars

\* ------------------------------------------- the string-program interpreter
Digits == <<"0", "1", "2", "3", "4", "5", "6", "7", "8", "9">>

RECURSIVE Itoa(_)
\* strconv.Itoa of a number that is not negative
Itoa(n) == IF n < 10 THEN <<Digits[n + 1]>> ELSE Itoa(n \div 10) \o <<Digits[(n % 10) + 1]>>

DigitValue(c) == CHOOSE d \in 0..9 : Digits[d + 1] = c

RECURSIVE AtoiDigits(_)
AtoiDigits(s) ==
    IF s = <<>> THEN 0 ELSE 10 * AtoiDigits(SubSeq(s, 1, Len(s) - 1)) + DigitValue(s[Len(s)])

\* strconv.Atoi of an unsigned string: err when it is not a decimal number
Atoi(s) ==
    IF s # <<>> /\ \A k \in 1..Len(s) : \E d \in 1..10 : Digits[d] = s[k]
    THEN [err |-> FALSE, n |-> AtoiDigits(s)]
    ELSE [err |-> TRUE, n |-> 0]

\* strings.LastIndex(s, sep): 0-based offset of the last occurrence, -1 if none
LastIndex(s, sep) ==
    LET hits == {m \in 0..Len(s) : HasPrefixAt(s, m + 1, sep)}
    IN  IF hits = {} THEN -1 ELSE CHOOSE m \in hits : \A h \in hits : m >= h

RECURSIVE TrimLeft(_)
TrimLeft(s) == IF s # <<>> /\ IsSpace(s[1]) THEN TrimLeft(Tail(s)) ELSE s

RECURSIVE TrimRight(_)
TrimRight(s) ==
    IF s # <<>> /\ IsSpace(s[Len(s)]) THEN TrimRight(SubSeq(s, 1, Len(s) - 1)) ELSE s

\* strings.TrimSpace(s)
TrimSpace(s) == TrimRight(TrimLeft(s))

\* strings.HasPrefix(s, prefix)
HasPrefix(s, prefix) == HasPrefixAt(s, 1, prefix)

\* the literal actions executeAction knows
PrintAction == <<"p", "r", "i", "n", "t">>
PrintNF == PrintAction \o <<" ", "N", "F">>
PrintNR == PrintAction \o <<" ", "N", "R">>
PrintDollar == PrintAction \o <<" ", "$">>

\* command.parseProgram: the pattern before the braces, the action in them
parseProgram(prog) ==
    LET start == Index(prog, <<"{">>)
        end == LastIndex(prog, <<"}">>)
    IN  IF start >= 0 /\ end >= 0 /\ start < end
        THEN [Pattern |-> TrimSpace(SubSeq(prog, 1, start)),
              Action |-> TrimSpace(SubSeq(prog, start + 2, end))]
        ELSE [Pattern |-> <<>>, Action |-> prog]

\* command.matchesPattern
matchesPattern(l, pattern) ==
    IF pattern = <<>> THEN TRUE ELSE Index(l, pattern) >= 0

\* command.executeAction
executeAction(l, fs, num, action) ==
    IF action = PrintAction THEN l
    ELSE IF action = PrintNF THEN Itoa(Len(fs))
    ELSE IF action = PrintNR THEN Itoa(num)
    ELSE IF action = PrintDollar \o <<"0">> THEN l
    ELSE IF action = PrintDollar \o <<"1">>
         THEN IF Len(fs) > 0 THEN fs[1] ELSE <<>>
    ELSE IF action = PrintDollar \o <<"2">>
         THEN IF Len(fs) > 1 THEN fs[2] ELSE <<>>
    ELSE LET fieldNum == Atoi(SubSeq(action, 8, Len(action)))
         IN  IF /\ HasPrefix(action, PrintDollar)
                /\ ~fieldNum.err /\ fieldNum.n > 0 /\ fieldNum.n <= Len(fs)
             THEN fs[fieldNum.n]
             ELSE l

\* the split of processReader: no special case for the empty line
InterpSplit(l, fs) ==
    IF fs = Space THEN StringsFields(l) ELSE StringsSplit(l, fs)

\* the program strings: an optional pattern, then {print $N} or {print NR}
InterpPatterns == { <<>>, <<"a", " ">>, <<",">> }
InterpActions == { PrintDollar \o Itoa(n) : n \in 1..MaxField } \cup { PrintNR }
Scripts == { p \o <<"{">> \o a \o <<"}">> : p \in InterpPatterns, a \in InterpActions }
InterpSeparators == { <<>>, <<",">> }

MissingProgram == [prefix |-> "", cause |-> "missing program"]

\* Awk(script, FieldSeparator): the interpreter as constructed
InterpInit ==
    /\ program = "string"
    /\ parameters = NoSeeds
    /\ \E fsep \in InterpSeparators : flags = Flags(fsep, NoSeeds)
    /\ script \in Scripts \cup { <<>> }
    /\ \/ stdin \in {<<r>> : r \in Strings(MaxLen)} /\ stdinErr = FALSE
       \/ stdin \in SeqsUpTo(SampleRecords, MaxRecords) /\ stdinErr \in BOOLEAN
    /\ stdoutClosed = FALSE
    /\ pc = "Execute"
    /\ awkProgram = NoProgram /\ lineNum = 0
    /\ Fields = <<>> /\ NR = 0 /\ NF = 0
    /\ FS = <<>> /\ OFS = <<>> /\ RS = <<>>
    /\ Variables = <<>> /\ allocated = FALSE
    /\ line = <<>> /\ fields = <<>>
    /\ scanned = 0
    /\ stdout = <<>>
    /\ wfailed = FALSE
    /\ result = NoError
    /\ got = <<>> /\ gotVar = Nil
    /\ ops = 0
    /\ last = NoCall
    /\ assigned = FALSE
    /\ nBegin = 0 /\ nCondition = 0 /\ nAction = 0 /\ nEnd = 0

\* command.Execute: the program is parsed, or it is missing
InterpExecute ==
    /\ pc = "Execute"
    /\ IF script = <<>>
       THEN /\ result' = MissingProgram
            /\ pc' = "returned"
            /\ UNCHANGED <<awkProgram, lineNum>>
       ELSE /\ awkProgram' = parseProgram(script)
            /\ lineNum' = 0
            /\ pc' = "processReader"
            /\ result' = result
    /\ UNCHANGED <<command, input, script, ctx, line, fields, scanned, stdout, wfailed,
                   got, gotVar, ops, last, assigned, counters>>

\* processReader: one turn of the loop
ProcessLine ==
    /\ pc = "processReader"
    /\ scanned < Len(stdin)
    /\ scanned' = scanned + 1
    /\ lineNum' = lineNum + 1
    /\ line' = stdin[scanned + 1]
    /\ fields' = InterpSplit(line', flags.FieldSeparator)
    /\ IF matchesPattern(line', awkProgram.Pattern)
       THEN LET output == executeAction(line', fields', lineNum', awkProgram.Action)
            IN  IF output # <<>> THEN Write(output) ELSE NoWrite
       ELSE NoWrite
    /\ UNCHANGED <<command, input, script, awkProgram, ctx, pc, result, got, gotVar,
                   ops, last, assigned, counters>>

\* processReader: the scanner is done, scanner.Err() is returned
ProcessReturn ==
    /\ pc = "processReader"
    /\ scanned = Len(stdin)
    /\ pc' = "returned"
    /\ result' = IF stdinErr THEN ReadError ELSE NoError
    /\ UNCHANGED <<command, input, interp, ctx, line, fields, scanned, stdout, wfailed,
                   got, gotVar, ops, last, assigned, counters>>

InterpNext == InterpExecute \/ ProcessLine \/ ProcessReturn

InterpSpec == InterpInit /\ [][InterpNext]_vars

\* ----------------------------------------------------------- fairness
\* the executor is sequential code that runs on, and every hook returns
\* the runs of a custom program over inputs of equal lines, without options
LiveInit ==
    /\ Init
    /\ program = "custom"
    /\ flags = Flags(<<>>, NoSeeds)
    /\ \A k \in 1..Len(stdin) : stdin[k] = <<"a", ",", " ", "a">>

LiveSpec == LiveInit /\ [][Next]_vars /\ WF_vars(Next)

\* ------------------------------------------------------ claim vocabulary
\* the record the scanner delivered last
Record == stdin[scanned]

\* Condition has just been entered for a record: nothing but the engine has
\* touched the context since the record was split
JustSplit == pc = "Condition" /\ Fresh

\* the split fields of the context, $1..$NF
SplitFields == SubSeq(Fields, 2, Len(Fields))

RECURSIVE CountFrom(_, _, _)
\* occurrences of a non-empty sep in s found scanning from position i on,
\* each search resuming behind the previous occurrence
CountFrom(s, sep, i) ==
    IF i + Len(sep) - 1 > Len(s) THEN 0
    ELSE IF \A k \in 1..Len(sep) : s[i + k - 1] = sep[k]
         THEN 1 + CountFrom(s, sep, i + Len(sep))
         ELSE CountFrom(s, sep, i + 1)

\* number of non-overlapping occurrences of sep in s; as strings.Count has
\* it, the empty string occurs before and behind every character
Occurrences(s, sep) ==
    IF sep = <<>> THEN Len(s) + 1 ELSE CountFrom(s, sep, 1)

Contains(s, sep) == \E m \in 0..Len(s) : HasPrefixAt(s, m + 1, sep)

\* the maximal runs of non-whitespace characters of s, as <<first, last>>
Runs(s) ==
    { r \in (1..Len(s)) \X (1..Len(s)) :
        /\ r[1] <= r[2]
        /\ \A k \in r[1]..r[2] : s[k] \notin Whitespace
        /\ r[1] = 1 \/ s[r[1] - 1] \in Whitespace
        /\ r[2] = Len(s) \/ s[r[2] + 1] \in Whitespace }

\* what literal-mode splitting promises of a non-empty record
LiteralSplitHolds ==
    /\ NF = Occurrences(Record, FS) + 1
    /\ Len(Fields) = NF + 1
    /\ Fields[1] = Record
    /\ Join(SplitFields, FS) = Record
    /\ \A k \in 1..NF : ~Contains(Fields[k + 1], FS)
    /\ ~Contains(Record, FS) => (NF = 1 /\ Field(1) = Record)

\* C1: in literal-separator mode (FS # " ") the empty record has NF = 0,
\* Fields is exactly <<"">> and Field(1), Field(2), ... are empty.
C1_EmptyRecordLiteral ==
    (JustSplit /\ FS # Space /\ Record = <<>>) =>
        /\ NF = 0
        /\ Fields = << <<>> >>
        /\ \A i \in 1..MaxLen : Field(i) = <<>>

C1_Witness ==
    /\ JustSplit /\ Record = <<>> /\ NF = 0
    /\ FS = <<",">>
    /\ scanned = 2

\* C2 as stated: for every non-empty record and every separator other than
\* " ", NF is the number of occurrences of the separator plus 1, the fields
\* are the substrings between the occurrences and join back to the record.
C2_AsStated ==
    (JustSplit /\ FS # Space /\ Record # <<>>) => LiteralSplitHolds

\* C2 amended: the same for every non-empty separator other than " "; under
\* the empty separator a non-empty record splits into its characters.
C2_LiteralSplit ==
    /\ (JustSplit /\ FS \notin {Space, <<>>} /\ Record # <<>>) => LiteralSplitHolds
    /\ (JustSplit /\ FS = <<>> /\ Record # <<>>) =>
          /\ NF = Len(Record)
          /\ \A k \in 1..NF : Fields[k + 1] = <<Record[k]>>

C2_Witness ==
    /\ JustSplit
    /\ FS = <<",", ",">>
    /\ Record = <<",", ",", ",", "a">>
    /\ Fields = << Record, <<>>, <<",", "a">> >>
    /\ NF = 2

\* C3: in whitespace mode (FS = " ", which an unset or empty option becomes)
\* the fields are exactly the maximal runs of non-whitespace characters of
\* the record, in order; none is empty or holds whitespace; an empty or
\* all-whitespace record has NF = 0.
C3_WhitespaceSplit ==
    /\ flags.FieldSeparator # <<>>
    /\ (JustSplit /\ FS = Space) =>
          /\ NF = Cardinality(Runs(Record))
          /\ Len(Fields) = NF + 1
          /\ Fields[1] = Record
          /\ \A k \in 1..NF :
                /\ Fields[k + 1] # <<>>
                /\ \A j \in 1..Len(Fields[k + 1]) : Fields[k + 1][j] \notin Whitespace
                /\ \E r \in Runs(Record) :
                      /\ Fields[k + 1] = SubSeq(Record, r[1], r[2])
                      /\ Cardinality({q \in Runs(Record) : q[1] < r[1]}) = k - 1
          /\ (\A j \in 1..Len(Record) : Record[j] \in Whitespace) => NF = 0

C3_Witness ==
    /\ JustSplit
    /\ FS = Space
    /\ Record = <<"\t", "a", " ", ",">>
    /\ Fields = << Record, <<"a">>, <<",">> >>

\* C4 as stated: Field(0) returns the record that was read last, and the
\* empty string before any record has been read.
C4_AsStated ==
    [][HookField(0) => got' = IF scanned = 0 THEN <<>> ELSE Record]_vars

\* C4 amended: Field(i) is the empty string for i < 0 and i >= len(Fields)
\* and Fields[i] otherwise, and the call changes nothing; Field(0) is the
\* record read last (the empty string before any record) as long as no hook
\* has called SetField with an index >= 0 on these fields.
C4_FieldNeverFails ==
    [][\A i \in HookIndexes : HookField(i) =>
          /\ got' = IF i < 0 \/ i >= Len(Fields) THEN <<>> ELSE Fields[i + 1]
          /\ UNCHANGED <<ctx, line, fields, stdout, result, pc>>
          /\ (i = 0 /\ ~assigned) => got' = IF scanned = 0 THEN <<>> ELSE Record
      ]_vars

C4_Witness ==
    /\ pc = "Action"
    /\ last = Call("Field", 0)
    /\ ~assigned
    /\ got = Record /\ Record # <<>>

\* C5: SetField(i, v) with i >= 0 leaves Field(i) = v and NF = len(Fields)-1;
\* an index at or beyond the old length makes the length i + 1 with the new
\* slots other than i empty; every other old slot keeps its value, so that
\* SetField(0, v) changes neither the other fields nor the length.
C5_SetField ==
    [][\A i \in HookIndexes : (i >= 0 /\ HookSetField(i, HookValue)) =>
          /\ Field(i)' = HookValue
          /\ NF' = Len(Fields') - 1
          /\ Len(Fields') = IF i >= Len(Fields) THEN i + 1 ELSE Len(Fields)
          /\ \A j \in 1..Len(Fields') : j # i + 1 =>
                Fields'[j] = IF j <= Len(Fields) THEN Fields[j] ELSE <<>>
      ]_vars

C5_Witness ==
    /\ pc = "Condition"
    /\ last = Call("SetField", 0)
    /\ Fields = <<HookValue>> \o fields
    /\ NF = 2

\* C6: SetField(i, v) with i < 0 changes nothing: Fields, NF, NR and the
\* variables are as before the call.
C6_SetFieldNegative ==
    [][\A i \in HookIndexes : (i < 0 /\ HookSetField(i, HookValue)) =>
          UNCHANGED <<Fields, NF, NR, FS, OFS, RS, Variables>>
      ]_vars

C6_Witness ==
    /\ pc = "Action"
    /\ last = Call("SetField", -1)
    /\ Fields = <<line>> \o fields
    /\ NF = 2

\* C7: whenever a hook runs or has returned, len(Fields) = NF + 1, except
\* that before any record was read and any field was set Fields is empty
\* and NF = 0.
C7_FieldsLength ==
    pc # "init" =>
        IF scanned = 0 /\ ~assigned
        THEN Len(Fields) = 0 /\ NF = 0
        ELSE Len(Fields) = NF + 1

C7_Witness ==
    /\ pc = "End"
    /\ scanned = 0
    /\ assigned
    /\ Len(Fields) = 3 /\ NF = 2

\* C8: NR is 0 in Begin, is k in Condition and Action of the k-th record,
\* counts every record read whatever Condition returned and whatever was
\* written, never decreases, and is n in End after n records.
C8_RecordNumber ==
    /\ NR = scanned
    /\ NR = nCondition
    /\ pc = "Begin" => NR = 0
    /\ pc \in {"Condition", "Action"} => (NR >= 1 /\ Record = line)
    /\ pc = "End" => NR = Len(stdin)

C8_Witness ==
    /\ pc = "End"
    /\ NR = 2
    /\ nAction = 0
    /\ stdout = <<>>

C9_Safe ==
    /\ nBegin <= 1 /\ nEnd <= 1
    /\ pc # "init" => nBegin = 1
    /\ pc = "init" => (scanned = 0 /\ nCondition = 0 /\ nAction = 0 /\ nEnd = 0)
    /\ pc = "Begin" => (scanned = 0 /\ nCondition = 0 /\ nAction = 0 /\ nEnd = 0)
    /\ nEnd = 1 => (scanned = Len(stdin) /\ nCondition = Len(stdin) /\ ~stdinErr
                      /\ pc \in {"End", "done"})
    /\ (pc = "done" /\ result.prefix # "BEGIN" /\ ~stdinErr) => nEnd = 1

\* C9: Begin is invoked exactly once, before any record is read and before
\* any other hook; once Begin has succeeded and the input has no read
\* error, End is eventually invoked, exactly once, after the last record.
C9_Lifecycle ==
    /\ []C9_Safe
    /\ (pc = "scan" /\ ~stdinErr) ~> (nEnd = 1 /\ nCondition = Len(stdin))

C9_Witness ==
    /\ pc = "End"
    /\ nBegin = 1 /\ nEnd = 1
    /\ scanned = 2
    /\ nAction = 1

C10_Updated ==
    /\ JustSplit =>
          /\ NR = scanned
          /\ Fields = <<Record>> \o SplitLine(Record, FS)
          /\ NF = Len(SplitLine(Record, FS))
    /\ pc \in {"Condition", "Action"} => nCondition = scanned
    /\ pc \in {"scan", "End", "done"} => nCondition = scanned
    /\ nAction <= nCondition
    /\ (pc \in {"Condition", "Action"} /\ ~assigned) =>
          (Fields[1] = Record /\ NF = Len(Fields) - 1 /\ NR = scanned)

\* C10: for each record the engine first brings NR, Fields and NF up to
\* date, then calls Condition once, then calls Action once exactly when
\* Condition returned true; a false Condition leaves the update applied
\* and writes nothing.
C10_PerRecord ==
    /\ []C10_Updated
    /\ [][/\ ConditionReturn(TRUE) => (pc' = "Action" /\ nAction' = nAction + 1)
          /\ ConditionReturn(FALSE) =>
                (pc' = "scan" /\ nAction' = nAction /\ UNCHANGED <<ctx, stdout>>)
          /\ nAction' # nAction => pc = "Condition"
          /\ nCondition' # nCondition =>
                (pc = "scan" /\ scanned' = scanned + 1 /\ nCondition' = scanned')
          /\ stdout' # stdout => pc \in {"Action", "End"}
         ]_vars

C10_Witness ==
    /\ pc = "scan"
    /\ scanned = 1
    /\ nCondition = 1 /\ nAction = 0
    /\ Len(stdin) = 2
    /\ Fields = <<Record>> \o SplitLine(Record, flags.FieldSeparator)
    /\ Record # <<>>

\* the number of line terminators in a stream
Terminators(w) == Cardinality({k \in 1..Len(w) : w[k] = "\n"})

\* w grew by text and one line terminator
WroteLine(w, after, text) ==
    /\ Len(after) = Len(w) + Len(text) + 1
    /\ SubSeq(after, 1, Len(w)) = w
    /\ SubSeq(after, Len(w) + 1, Len(w) + Len(text)) = text
    /\ after[Len(after)] = "\n"

\* C11: when Action returns (output, true) the output and exactly one line
\* terminator are written before the next record is read, also for the
\* empty output; when it returns (output, false) nothing is written; so
\* there is at most one Action line per record, in the order of the records.
C11_ActionEmission ==
    /\ [](Terminators(stdout) <= nAction + nEnd /\ nAction <= scanned)
    /\ [][/\ (pc = "Action" /\ pc' # "Action") =>
                /\ \A o \in ActionOutputs :
                      /\ ActionReturn(o, TRUE) =>
                            /\ WroteLine(stdout, stdout', o)
                            /\ pc' = "scan" /\ scanned' = scanned
                      /\ ActionReturn(o, FALSE) => stdout' = stdout
                /\ Terminators(stdout') <= Terminators(stdout) + 1
          /\ stdout' # stdout =>
                /\ Len(stdout') > Len(stdout)
                /\ SubSeq(stdout', 1, Len(stdout)) = stdout
         ]_vars

C11_Witness ==
    /\ pc = "scan"
    /\ Len(stdin) = 2 /\ scanned = 1
    /\ stdin[1] = <<>>
    /\ nAction = 1
    /\ stdout = <<"\n">>

\* C12: when End returns (output, nil) with a non-empty output, the output
\* is written as one line, the last of the stream; when it returns ("", nil)
\* nothing is written; the default End writes nothing.
C12_EndOutput ==
    [][/\ pc = "End" =>
             \A o \in EndOutputs : EndReturn(o, FALSE) =>
                /\ IF o = <<>> THEN stdout' = stdout ELSE WroteLine(stdout, stdout', o)
                /\ pc' = "done"
       /\ (pc = "End" /\ program = "simple" /\ pc' # "End") => stdout' = stdout
       /\ pc = "done" => stdout' = stdout
       /\ (stdout' # stdout /\ pc # "End") => (pc = "Action" /\ nEnd = 0)
      ]_vars

C12_Witness ==
    /\ pc = "done"
    /\ result = NoError
    /\ scanned = 1 /\ nAction = 1
    /\ stdin[1] # <<>>
    /\ stdout = stdin[1] \o <<"\n">> \o HookLine \o <<"\n">>

\* C13: when Begin returns an error the run ends with that error wrapped
\* behind the prefix BEGIN, no record is read, Condition, Action and End are
\* not called, and nothing is written.
C13_BeginFailure ==
    /\ [](result.prefix = "BEGIN" =>
            /\ pc = "done"
            /\ result.cause = HookError.cause
            /\ scanned = 0 /\ NR = 0
            /\ nCondition = 0 /\ nAction = 0 /\ nEnd = 0
            /\ stdout = <<>>)
    /\ [][BeginReturn(TRUE) => (pc' = "done" /\ result'.prefix = "BEGIN")]_vars

C13_Witness ==
    /\ pc = "done"
    /\ result = Errorf("BEGIN", HookError)
    /\ Len(stdin) = 2
    /\ scanned = 0

\* C14: when the reader fails after k records, the k records have gone
\* through Condition and Action, what they wrote stays, the run ends with
\* the read error, End is not called and nothing is written afterwards.
C14_ReadFailure ==
    /\ [](/\ stdinErr => nEnd = 0
          /\ (pc = "done" /\ stdinErr /\ result.prefix # "BEGIN") =>
                /\ result.cause = ReadError.cause
                /\ scanned = Len(stdin) /\ nCondition = Len(stdin))
    /\ [][ScanError =>
            /\ pc' = "done"
            /\ result'.cause = ReadError.cause
            /\ UNCHANGED <<stdout, nEnd, nCondition, nAction>>]_vars

C14_Witness ==
    /\ pc = "done"
    /\ result = ReadError
    /\ scanned = 2 /\ nCondition = 2 /\ nAction = 1
    /\ stdout = stdin[2] \o <<"\n">>
    /\ stdin[2] # <<>>

\* C15: when End returns an error, with any output, the run ends with that
\* error wrapped behind the prefix END, End's output is not written and the
\* lines written before stay as they are.
C15_EndFailure ==
    /\ [](result.prefix = "END" =>
            (pc = "done" /\ nEnd = 1 /\ result.cause = HookError.cause))
    /\ [][pc = "End" =>
            \A o \in EndOutputs : EndReturn(o, TRUE) =>
                /\ pc' = "done"
                /\ result'.prefix = "END"
                /\ stdout' = stdout]_vars

C15_Witness ==
    /\ pc = "done"
    /\ result = Errorf("END", HookError)
    /\ scanned = 1 /\ nAction = 1
    /\ stdout = stdin[1] \o <<"\n">>
    /\ stdin[1] # <<>>

\* C16: every run that ends in error ends with one wrapped error whose
\* prefix names the phase that produced it: setup, input read or teardown.
C16_AsStated ==
    (pc = "done" /\ result # NoError) =>
        /\ result.prefix # ""
        /\ result.cause # ""

\* how a run that has ended came to its result
C17_Endings ==
    /\ pc # "done" => result = NoError
    /\ (pc = "done" /\ result # NoError) =>
          \/ /\ result.prefix = "BEGIN" /\ result.cause = HookError.cause
             /\ nEnd = 0 /\ scanned = 0
          \/ /\ result = ReadError
             /\ stdinErr /\ nEnd = 0
             /\ scanned = Len(stdin) /\ nCondition = Len(stdin)
          \/ /\ result.prefix = "END" /\ result.cause = HookError.cause
             /\ nEnd = 1
             /\ scanned = Len(stdin) /\ nCondition = Len(stdin)
    /\ (pc = "done" /\ result = NoError) => (nEnd = 1 /\ ~stdinErr)

\* C17: a run ends in error exactly when Begin returned an error, the read
\* failed or End returned an error; only the first two end without End
\* having run, only the third ends in error after all records; no Condition
\* result, Action result, record or failed write makes a run end in error.
C17_TerminalStates ==
    /\ []C17_Endings
    /\ [][pc' # pc =>
            /\ (BeginReturn(TRUE) \/ ScanError \/ \E o \in EndOutputs : EndReturn(o, TRUE))
                  => (pc' = "done" /\ result' # NoError)
            /\ (\E o \in EndOutputs : EndReturn(o, FALSE))
                  => (pc' = "done" /\ result' = NoError)
            /\ (\/ BeginReturn(FALSE) \/ ScanRecord \/ ScanEOF
                \/ \E b \in BOOLEAN : ConditionReturn(b)
                \/ \E o \in ActionOutputs, e \in BOOLEAN : ActionReturn(o, e))
                  => (pc' # "done" /\ result' = NoError)
         ]_vars

C17_Witness ==
    /\ pc = "done"
    /\ result = NoError
    /\ wfailed
    /\ scanned = 2 /\ nAction = 2
    /\ stdin[1] = <<>> /\ stdin[2] # <<>>

\* what a lookup of name in the variables of the Context gives
Stored(name) ==
    IF allocated /\ name \in DOMAIN Variables THEN Variables[name] ELSE Nil

\* C18: after SetVar(name, v), Var(name) returns v until the next SetVar of
\* that name and the other names keep their values; SetVar on a Context
\* whose map was never made makes it; Var of a name never set, or on a
\* Context without a map, returns nil; the executor never changes a variable
\* after the seeds are copied, so a value set in one hook is seen in the
\* hooks of the later records and in End.
C18_Variables ==
    /\ [](~allocated => Variables = <<>>)
    /\ [][/\ last'.op = "SetVar" =>
                \A name \in VarNames, value \in VarValues :
                    HookSetVar(name, value) =>
                        /\ allocated'
                        /\ Stored(name)' = value
                        /\ \A other \in VarNames \ {name} : Stored(other)' = Stored(other)
          /\ last'.op = "Var" =>
                \A name \in VarNames :
                    HookVar(name) =>
                        /\ gotVar' = Stored(name)
                        /\ (~allocated \/ name \notin DOMAIN Variables) => gotVar' = Nil
                        /\ UNCHANGED <<Variables, allocated>>
          /\ (pc # "init" /\ last'.op # "SetVar") => UNCHANGED <<Variables, allocated>>
          /\ (pc # "init" /\ pc' # pc) => UNCHANGED <<Variables, allocated>>
         ]_vars

C18_Witness ==
    /\ pc = "direct"
    /\ ops = 2
    /\ last.op = "Var"
    /\ allocated
    /\ gotVar \in VarValues

RECURSIVE LastGiven(_, _)
\* the value of the last Variable option of that name, nil if there is none
LastGiven(given, name) ==
    IF given = <<>>
    THEN Nil
    ELSE IF given[Len(given)].Name = name
         THEN given[Len(given)].Value
         ELSE LastGiven(SubSeq(given, 1, Len(given) - 1), name)

\* C19: when Begin is called, every name given to Awk as a Variable has the
\* value of the last Variable given for it and no other name is set; a
\* value that SetVar has put in place of a seed is not replaced by the seed
\* again in the rest of the run.
C19_Seeds ==
    /\ []((pc = "Begin" /\ Fresh) =>
            /\ allocated
            /\ \A name \in VarNames : Stored(name) = LastGiven(parameters, name)
            /\ DOMAIN Variables \subseteq {parameters[k].Name : k \in 1..Len(parameters)})
    /\ [][/\ (pc = "Begin" /\ Fresh) =>
                \A name \in VarNames :
                    HookVar(name) => gotVar' = LastGiven(parameters, name)
          /\ \A name \in VarNames :
                Stored(name) \in VarValues => Stored(name)' \in VarValues
         ]_vars

C19_Witness ==
    /\ pc = "Begin" /\ last.op = "Var"
    /\ ops = 1
    /\ Len(parameters) = 2
    /\ parameters[1].Name = parameters[2].Name
    /\ parameters[1].Value # parameters[2].Value
    /\ gotVar = parameters[2].Value

RECURSIVE Lines(_)
\* the records, each followed by a line terminator
Lines(records) ==
    IF records = <<>>
    THEN <<>>
    ELSE Lines(SubSeq(records, 1, Len(records) - 1))
            \o records[Len(records)] \o <<"\n">>

\* C20: a run of SimpleProgram ends without error, and then its output is
\* the input records, one per line, in order and unchanged, under every
\* separator; no records give no output.
C20_PassThrough ==
    /\ (program = "simple" /\ pc = "done") =>
          (result = NoError /\ stdout = Lines(stdin))
    /\ (program = "simple" /\ pc = "scan") =>
          stdout = Lines(SubSeq(stdin, 1, scanned))

C20_Witness ==
    /\ program = "simple"
    /\ pc = "done"
    /\ ~stdoutClosed
    /\ flags.FieldSeparator = <<",">>
    /\ stdin = << <<" ", "a", ",", "\t">> >>
    /\ stdout = <<" ", "a", ",", "\t", "\n">>

\* C22: the loop builds Fields and NF anew for every record: when Condition
\* is called for a record, Fields is the record followed by its split under
\* the FS of that moment and NF is the number of split fields, whatever
\* SetField calls the hooks of earlier records made.
C22_FieldsReset ==
    JustSplit =>
        /\ Fields = <<Record>> \o SplitLine(Record, FS)
        /\ NF = Len(SplitLine(Record, FS))
        /\ Len(Fields) = NF + 1
        /\ ~assigned

C22_Witness ==
    /\ JustSplit
    /\ scanned = 2
    /\ stdin[1] = <<>> /\ stdin[2] = <<"a", ",", " ", "a">>
    /\ stdout = HookValue \o <<"\n">>
    /\ Fields = <<stdin[2], <<"a", ",">>, <<"a">> >>
    /\ NF = 2

\* C23: once the context is built the executor never assigns FS, OFS or RS:
\* they are the configured values (a single space where none or an empty one
\* was given) and newline until a hook assigns them, and a record is split
\* by the FS the context holds when it is read, so a hook's assignment in
\* one record decides the split of the next ones.
C23_Separators ==
    /\ [](/\ flags.FieldSeparator # <<>>
          /\ flags.OutputFieldSeparator = Space
          /\ (pc \in HookPcs /\ ops = 0) =>
                /\ FS = flags.FieldSeparator
                /\ OFS = flags.OutputFieldSeparator
                /\ RS = <<"\n">>)
    /\ [][pc' # pc =>
            /\ pc = "init" =>
                  /\ FS' = flags.FieldSeparator
                  /\ OFS' = flags.OutputFieldSeparator
                  /\ RS' = <<"\n">>
            /\ pc # "init" => UNCHANGED <<FS, OFS, RS>>
            /\ (pc = "scan" /\ pc' = "Condition") =>
                  /\ Fields' = <<stdin[scanned']>> \o SplitLine(stdin[scanned'], FS)
                  /\ NF' = Len(Fields') - 1
         ]_vars

C23_Witness ==
    /\ JustSplit
    /\ scanned = 2
    /\ ops = 1
    /\ flags.FieldSeparator = Space
    /\ FS = <<",">>
    /\ Fields = <<Record, <<"a">>, <<" ", "a">> >>

\* End has just been called
EndEntered == pc = "End" /\ Fresh

\* C24 as stated: after zero records End finds no fields at all.
C24_AsStated ==
    (EndEntered /\ scanned = 0) =>
        /\ Fields = <<>> /\ NF = 0 /\ NR = 0
        /\ Field(0) = <<>>

\* C24: End finds NR at the number of records read, and Fields and NF as the
\* hooks of the last record left them, also when its Condition was false;
\* after zero records NR is 0 and, unless Begin has called SetField, Fields
\* is empty, NF is 0 and Field(0) is the empty string.
C24_EndContext ==
    /\ [](EndEntered =>
            /\ NR = Len(stdin) /\ scanned = Len(stdin)
            /\ (scanned >= 1 /\ ~assigned) =>
                  /\ Fields = <<Record>> \o fields
                  /\ NF = Len(fields)
            /\ (scanned = 0 /\ ~assigned) =>
                  /\ Fields = <<>> /\ NF = 0
                  /\ Field(0) = <<>>)
    /\ [][(pc' # pc /\ pc \in {"Condition", "Action", "scan"} /\ pc' # "Condition") =>
            UNCHANGED <<Fields, NF, NR>>]_vars

C24_Witness ==
    /\ EndEntered
    /\ scanned = 1 /\ nAction = 0
    /\ Record = <<"a", ",", " ", "a">>
    /\ assigned
    /\ Fields[1] = HookValue
    /\ NR = 1

\* the context a run of the command starts from
FreshContext ==
    /\ NR = 0 /\ Fields = <<>> /\ NF = 0
    /\ FS = flags.FieldSeparator
    /\ OFS = flags.OutputFieldSeparator
    /\ RS = <<"\n">>
    /\ allocated
    /\ DOMAIN Variables = {parameters[k].Name : k \in 1..Len(parameters)}
    /\ \A name \in DOMAIN Variables : Variables[name] = LastGiven(parameters, name)

\* C21: every invocation of the executor starts Begin on a fresh context
\* (NR = 0, no fields, the variables a copy of the seeds, the separators
\* those of the command), and no step of a run changes the separators or
\* the seeds of the command, so a second run starts as the first did,
\* whatever the first did.
C21_RunIsolation ==
    /\ []((pc = "Begin" /\ Fresh) => FreshContext)
    /\ [](flags.Variables = ConfigureAll(parameters))
    /\ [][UNCHANGED <<parameters, flags, program>>]_vars

C21_Witness ==
    /\ pc = "Begin" /\ Fresh
    /\ nBegin = 2
    /\ ops = 2
    /\ nAction = 1
    /\ stdout = HookValue \o <<"\n">>
    /\ Variables["x"] = SeedValue

\* the field number a {print $N} program asks for, 0 for another program
RequestedField ==
    IF \E n \in 1..MaxField : awkProgram.Action = PrintDollar \o Itoa(n)
    THEN CHOOSE n \in 1..MaxField : awkProgram.Action = PrintDollar \o Itoa(n)
    ELSE 0

\* line k passes the pattern of the program
Selected(k) ==
    awkProgram.Pattern = <<>> \/ Contains(stdin[k], awkProgram.Pattern)

\* what the claim has the interpreter print for line k, terminators included
StatedOutput(k) ==
    LET l == stdin[k]
        fs == InterpSplit(l, flags.FieldSeparator)
        N == RequestedField
    IN  IF ~Selected(k) THEN <<>>
        ELSE IF N = 0 THEN Itoa(k) \o <<"\n">>
        ELSE IF Len(fs) >= N THEN fs[N] \o <<"\n">>
        ELSE IF N <= 2 THEN <<>>
        ELSE l \o <<"\n">>

\* the same, with no line at all where the text to print is empty
PrintedOutput(k) ==
    IF StatedOutput(k) = <<"\n">> THEN <<>> ELSE StatedOutput(k)

RECURSIVE StatedUpTo(_)
StatedUpTo(k) == IF k = 0 THEN <<>> ELSE StatedUpTo(k - 1) \o StatedOutput(k)

RECURSIVE PrintedUpTo(_)
PrintedUpTo(k) == IF k = 0 THEN <<>> ELSE PrintedUpTo(k - 1) \o PrintedOutput(k)

\* the interpreter is between two lines, or behind the last
BetweenLines == program = "string" /\ pc \in {"processReader", "returned"} /\ script # <<>>

\* C25: the string program {print $N} prints, for every line with at least
\* N fields, a line that is exactly field N; for a line with fewer fields it
\* prints nothing when N is 1 or 2 and the whole line when N is 3 or more;
\* a pattern before the braces restricts this to the lines that contain it,
\* and the line counter printed by print NR counts every line.
C25_AsStated ==
    BetweenLines => (lineNum = scanned /\ stdout = StatedUpTo(scanned))

\* what the interpreter does: as C25 says, but nothing is printed where the
\* text to print is the empty string
C25_EmptyTextDropped ==
    BetweenLines => (lineNum = scanned /\ stdout = PrintedUpTo(scanned))

\* a line whose second field is there and empty has been processed by
\* {print $2}, and nothing was printed
C25_EmptyFieldCase ==
    /\ BetweenLines
    /\ flags.FieldSeparator = <<",">>
    /\ RequestedField = 2
    /\ awkProgram.Pattern = <<>>
    /\ stdin = << <<"a", ",", ",", "a">> >>
    /\ scanned = 1
    /\ fields = << <<"a">>, <<>>, <<"a">> >>
    /\ stdout = <<>>

====
